---- MODULE Spec2Model ----
(***************************************************************************)
(* State-machine model of the flipbook viewer (FlipbookViewer.tsx,         *)
(* pdfUtils.ts preloadPages, ThumbnailBar.tsx): the load effect, the page  *)
(* cache, the preload passes, goToPage with its 400 ms timers, and the     *)
(* drag gesture handlers.                                                  *)
(*                                                                         *)
(* One step of the model is one macrotask of the browser's event loop: an  *)
(* event handler, a timer callback, or the settling of a render promise    *)
(* together with the promise continuations (microtasks) it triggers.       *)
(* React state is read as of the last commit; setState calls made in a     *)
(* step are committed at the end of the step.                              *)
(*                                                                         *)
(* One viewing session is modelled: the viewer is mounted with a fixed     *)
(* source (App never changes the props of a mounted viewer).  Zoom,        *)
(* fullscreen, the thumbnail toggle and the share modal only touch their   *)
(* own state and are left out.  Every image carries the id of the loadPage *)
(* call that rendered it (0 for the load effect) so that writers of the    *)
(* same page can be told apart; dragProgress is kept in units of 1/200.    *)
(***************************************************************************)
EXTENDS Integers, Sequences, FiniteSets, TLC

\* ---------------------------------------------------------------- bounds
MaxPages  == 3      \* largest numPages a loaded document reports
MaxLoads  == 1      \* loadPage calls whose render is in flight or succeeded
MaxTimers == 2      \* flip timers pending at once

\* ------------------------------------------------------ program constants
DRAG_THRESHOLD == 50
DragNormDistance == 200
FlipDelayMs == 400
PreloadRange == 2
RenderScale == 15       \* 1.5, in tenths
JpegQuality == 7        \* 0.7, in tenths

NULL == "null"
PressCoords == {300}               \* pointer x offered to the press handlers
MoveCoords == {0, 250, 350, 600}   \* pointer x offered to the move handlers
Keys == {"ArrowLeft", "ArrowUp", "ArrowRight", "ArrowDown", "Home", "End"}

VARIABLES
    source,          \* pdfUrl ?? pdfFile: "url" or NULL
    loadPhase,       \* position of loadPDFFile
    isLoading, loadingProgress, pdf, totalPages,
    currentPage, pageImages, flipDirection,
    isDragging, dragStartX, dragCurrentX, dragProgress,
    timers,          \* pending goToPage timeouts, in firing order
    tasks,           \* render work in flight
    loadSeq,         \* id of the latest loadPage call that started a render
    lastWriter,      \* page -> id of the task whose write completed last
    ev,              \* what the last step did (observation only)
    app,             \* the App component: upload hand-off and share links
    relay,           \* the upload relay handling one POST /upload
    share,           \* a share link from its generation to its opening
    stale,           \* the load superseded by a change of the viewer's source
    observer         \* the thumbnail bar's observer has yet to report

vars == <<source, loadPhase, isLoading, loadingProgress, pdf, totalPages,
          currentPage, pageImages, flipDirection,
          isDragging, dragStartX, dragCurrentX, dragProgress,
          timers, tasks, loadSeq, lastWriter, ev, app, relay, share, stale, observer>>

navVars  == <<currentPage, flipDirection, timers>>
dragVars == <<isDragging, dragStartX, dragCurrentX, dragProgress>>
loadVars == <<source, loadPhase, isLoading, loadingProgress, pdf, totalPages>>
cacheVars == <<pageImages, tasks, loadSeq, lastWriter>>
appVars == <<app, relay, share, stale, observer>>
\* the variables outside the viewer and its superseded load
siteVars == <<app, relay, share>>
viewerVars == <<loadVars, navVars, dragVars, cacheVars, ev>>

\* ------------------------------------------------------------- helpers
Max(a, b) == IF a > b THEN a ELSE b
Min(a, b) == IF a < b THEN a ELSE b
Abs(a) == IF a < 0 THEN -a ELSE a

\* Map.set on a copy of m
MapSet(m, k, v) == [x \in (DOMAIN m) \cup {k} |-> IF x = k THEN v ELSE m[x]]

\* renderPage(pdf, n, 1.5) resolved, as produced by load/task id
Canvas(n, id) == [page |-> n, scale |-> RenderScale, by |-> id]
\* canvas.toDataURL('image/jpeg', quality)
canvasToImageUrl(canvas, quality) == [jpeg |-> canvas, quality |-> quality]
Image(n, id) == canvasToImageUrl(Canvas(n, id), JpegQuality)

\* mutant: the window is not clamped to 1..totalPages
PreloadSet_Unclamped(p, tp, range) ==
    {i \in (p - range) .. (p + range) : i # p}

\* the pages preloadPages starts a render for
PreloadSet(p, tp, range) ==
    {i \in Max(1, p - range) .. Min(tp, p + range) : i # p}

\* the calls made by the last step: goToPage targets, how many were accepted,
\* playPageFlipSound calls, renderPage calls of load/loadPage (in order), and
\* the pages and centre of a preloadPages call
\* (op is "request", "thumbnail" or "release" for the handlers that may call
\* goToPage / loadPage, arg the drag delta of a release; op is "settled" when
\* a preloadPages promise resolved and "rejected" when it rejected, arg the
\* id of the pass, rendered the pages whose render succeeded and pass the
\* pages the promise resolved with; op is "failed" when the render awaited
\* by loadPage failed, arg the page; op is "flipped" when a flip timer fired,
\* arg its target; op is "move" for a pointer move)
NoEv == [op |-> "", arg |-> 0, goto |-> <<>>, accepted |-> 0, sounds |-> 0,
         renders |-> <<>>, pass |-> {}, center |-> 0, rendered |-> {}]

\* Math.max(-1, Math.min(1, deltaX / 200)), in units of 1/200
Progress(deltaX) == Max(-DragNormDistance, Min(DragNormDistance, deltaX))

\* ------------------------------------------------------------ text
\* a string is a sequence of characters; a word of the source that no
\* conversion looks into ("pdf", "#/view", "Flipbook") is one character
Chars == {"a", " ", "&", "=", "+", "%", "?"}
MaxLen == 2
Str == UNION {[1..n -> Chars] : n \in 0..MaxLen}

\* what the upload relay answers: status, error message or success body
Response(status, error) ==
    [status |-> status, error |-> error,
     pdfUrl |-> << >>, viewerUrl |-> << >>, title |-> << >>, path |-> << >>]
\* process.env and the installed express: whether the GitHub variables are
\* set, what req.body is when no parser filled it, what GitHub will answer
Envs ==
    [configured : BOOLEAN, emptyBody : {"object", "undefined"},
     github : {"ok", "notok", "throws"}]
NoRequest ==
    [from |-> "", origin |-> "none", multipart |-> FALSE, field |-> "none",
     mimetype |-> "", originalname |-> << >>, title |-> << >>]
\* the relay with no request received
RelayIdle ==
    [phase |-> "idle", req |-> NoRequest, res |-> << >>, puts |-> 0,
     env |-> [configured |-> TRUE, emptyBody |-> "object", github |-> "ok"]]

\* the App component showing its landing page, nothing uploaded or opened
AppIdle ==
    [phase |-> "idle", file |-> NULL, isProcessing |-> FALSE, currentPDF |-> NULL,
     redirects |-> << >>, alerts |-> 0, fetches |-> 0, failure |-> "",
     backendEndpoint |-> FALSE, crossOrigin |-> FALSE, sent |-> FALSE]

\* what the App shows after its mount effect read the hash
NoSharedView ==
    [open |-> FALSE, sharedPdfUrl |-> << >>, hasTitle |-> FALSE, sharedTitle |-> << >>]
\* no share link generated
ShareIdle ==
    [by |-> "", pdfUrl |-> << >>, title |-> << >>, u |-> << >>, t |-> << >>,
     made |-> FALSE, link |-> << >>, opened |-> FALSE, view |-> NoSharedView]

\* no load has been superseded
NoStale == [phase |-> "none", tp |-> 0]

\* the viewer as mounted
ViewerInit ==
    /\ stale = NoStale
    /\ observer = FALSE
    /\ loadPhase = "mount"
    /\ isLoading = TRUE
    /\ loadingProgress = 0
    /\ pdf = NULL
    /\ totalPages = 0
    /\ currentPage = 1
    /\ pageImages = << >>
    /\ flipDirection = NULL
    /\ isDragging = FALSE
    /\ dragStartX = 0
    /\ dragCurrentX = 0
    /\ dragProgress = 0
    /\ timers = << >>
    /\ tasks = {}
    /\ loadSeq = 0
    /\ lastWriter = << >>
    /\ ev = NoEv

Init ==
    /\ app = AppIdle
    /\ relay = RelayIdle
    /\ share = ShareIdle
    /\ source \in {"url", NULL}
    /\ ViewerInit

\* ------------------------------------------------------------ load effect
\* loadPDFFile up to its first await
LoadPDFFileStart ==
    /\ loadPhase = "mount"
    /\ IF source = NULL
         THEN /\ loadPhase' = "failed"
              /\ isLoading' = FALSE
         ELSE /\ loadPhase' = "loadPDF"
              /\ isLoading' = TRUE
    /\ loadingProgress' = 0
    /\ ev' = NoEv
    /\ UNCHANGED <<source, pdf, totalPages, navVars, dragVars, cacheVars>>
    /\ UNCHANGED appVars

\* a render of page n awaited by loadPage call id
PageTask(id, n, tp) ==
    [id |-> id, kind |-> "page", page |-> n, tp |-> tp, pending |-> {n}, done |-> {}]
\* the renders of one preloadPages call centred on p, awaited by Promise.all
PassTask(id, p, tp) ==
    [id |-> id, kind |-> "pass", page |-> p, tp |-> tp,
     pending |-> PreloadSet(p, tp, PreloadRange), done |-> {}]

\* mutant: the page is put in a fresh Map instead of a copy of prev
CachePut_Replace(prev, k, v) == [x \in {k} |-> v]

\* setPageImages(prev => { newMap = new Map(prev); newMap.set(k, v) })
CachePut(prev, k, v) == MapSet(prev, k, v)

\* mutant: the pass's pages are put in a fresh Map instead of a copy of prev
CachePutAll_Replace(prev, pages, id) == [x \in pages |-> Image(x, id)]

\* setPageImages(prev => { newMap = new Map(prev); pages.forEach(set) })
CachePutAll(prev, pages, id) ==
    [x \in (DOMAIN prev) \cup pages |-> IF x \in pages THEN Image(x, id) ELSE prev[x]]

\* setPageImages(new Map([[1, firstPageImage]]))
CacheFirst(img) == [x \in {1} |-> img]

WriterPutAll(w, pages, id) ==
    [x \in (DOMAIN w) \cup pages |-> IF x \in pages THEN id ELSE w[x]]

\* const pdfDoc = await loadPDF(source) resolves with n pages
LoadPDFResolve(n) ==
    /\ loadPhase = "loadPDF"
    /\ loadPhase' = "renderFirst"
    /\ pdf' = "doc"
    /\ totalPages' = n
    /\ loadingProgress' = 50
    /\ ev' = [NoEv EXCEPT !.renders = <<1>>]
    /\ UNCHANGED <<source, isLoading, navVars, dragVars, cacheVars>>
    /\ UNCHANGED appVars

\* mutant: the catch block starts the load again
LoadPDFReject_Retries ==
    /\ loadPhase = "loadPDF"
    /\ loadPhase' = "mount"
    /\ isLoading' = FALSE
    /\ ev' = NoEv
    /\ UNCHANGED <<source, loadingProgress, pdf, totalPages, navVars, dragVars, cacheVars>>
    /\ UNCHANGED appVars

\* loadPDF rejects: catch block
LoadPDFReject ==
    /\ loadPhase = "loadPDF"
    /\ loadPhase' = "failed"
    /\ isLoading' = FALSE
    /\ ev' = NoEv
    /\ UNCHANGED <<source, loadingProgress, pdf, totalPages, navVars, dragVars, cacheVars>>
    /\ UNCHANGED appVars

\* await renderPage(pdfDoc, 1, 1.5) settles
FirstPageSettle(ok) ==
    /\ loadPhase = "renderFirst"
    /\ isLoading' = FALSE
    /\ IF ok
         THEN /\ pageImages' = CacheFirst(Image(1, 0))
              /\ lastWriter' = [x \in {1} |-> 0]
              /\ loadingProgress' = 100
              /\ loadPhase' = "preloadWait"
         ELSE /\ loadPhase' = "failed"
              /\ UNCHANGED <<pageImages, lastWriter, loadingProgress>>
    /\ ev' = NoEv
    /\ UNCHANGED <<source, pdf, totalPages, navVars, dragVars, tasks, loadSeq>>
    /\ UNCHANGED <<siteVars, stale>>
    /\ observer' = (observer \/ totalPages > 0)

\* the setTimeout(..., 100) callback: preloadPages(pdfDoc, 1, numPages, 2)
InitialPreloadTimer ==
    /\ loadPhase = "preloadWait"
    /\ loadPhase' = "done"
    /\ LET t == PassTask(0, 1, totalPages)
       IN /\ tasks' = IF t.pending = {} THEN tasks ELSE tasks \cup {t}
          /\ ev' = [NoEv EXCEPT !.center = 1, !.pass = t.pending]
    /\ UNCHANGED <<source, isLoading, loadingProgress, pdf, totalPages,
                   navVars, dragVars, pageImages, loadSeq, lastWriter>>
    /\ UNCHANGED appVars

\* mutant: the catch block records the failure in the cache
PageRenderSettle_RemembersFailure(t, ok) ==
    /\ t \in tasks /\ t.kind = "page"
    /\ IF ok
         THEN LET pass == PassTask(t.id, t.page, t.tp)
              IN /\ pageImages' = CachePut(pageImages, t.page, Image(t.page, t.id))
                 /\ lastWriter' = MapSet(lastWriter, t.page, t.id)
                 /\ tasks' = (tasks \ {t}) \cup (IF pass.pending = {} THEN {} ELSE {pass})
                 /\ ev' = [NoEv EXCEPT !.center = t.page, !.pass = pass.pending]
                 /\ UNCHANGED loadSeq
         ELSE /\ tasks' = tasks \ {t}
              /\ pageImages' = CachePut(pageImages, t.page, [jpeg |-> NULL, quality |-> 0])
              /\ lastWriter' = MapSet(lastWriter, t.page, t.id)
              /\ ev' = [NoEv EXCEPT !.op = "failed", !.arg = t.page]
              /\ UNCHANGED loadSeq
    /\ UNCHANGED <<loadVars, navVars, dragVars>>
    /\ UNCHANGED <<siteVars, stale>>
    /\ observer' = TRUE

\* mutant: the catch block replaces the cache by a copy of itself
PageRenderSettle_FailureRefreshesCache(t, ok) ==
    /\ t \in tasks /\ t.kind = "page"
    /\ IF ok
         THEN LET pass == PassTask(t.id, t.page, t.tp)
              IN /\ pageImages' = CachePut(pageImages, t.page, Image(t.page, t.id))
                 /\ lastWriter' = MapSet(lastWriter, t.page, t.id)
                 /\ tasks' = (tasks \ {t}) \cup (IF pass.pending = {} THEN {} ELSE {pass})
                 /\ ev' = [NoEv EXCEPT !.center = t.page, !.pass = pass.pending]
                 /\ UNCHANGED loadSeq
         ELSE /\ tasks' = tasks \ {t}
              /\ loadSeq' = IF t.id = loadSeq THEN loadSeq - 1 ELSE loadSeq
              /\ ev' = [NoEv EXCEPT !.op = "failed", !.arg = t.page]
              /\ UNCHANGED <<pageImages, lastWriter>>
    /\ UNCHANGED <<loadVars, navVars, dragVars>>
    /\ UNCHANGED <<siteVars, stale>>
    /\ observer' = TRUE

\* loadPage after `await renderPage(pdf, pageNum, 1.5)`: the render of a
\* page task settles; on success the page is cached and a preload pass
\* starts, on failure the catch block logs.  A failed call leaves nothing
\* that carries its id, so the id of the latest call is free again.
PageRenderSettle(t, ok) ==
    /\ t \in tasks /\ t.kind = "page"
    /\ IF ok
         THEN LET pass == PassTask(t.id, t.page, t.tp)
              IN /\ pageImages' = CachePut(pageImages, t.page, Image(t.page, t.id))
                 /\ lastWriter' = MapSet(lastWriter, t.page, t.id)
                 /\ tasks' = (tasks \ {t}) \cup (IF pass.pending = {} THEN {} ELSE {pass})
                 /\ ev' = [NoEv EXCEPT !.center = t.page, !.pass = pass.pending]
                 /\ UNCHANGED loadSeq
         ELSE /\ tasks' = tasks \ {t}
              /\ loadSeq' = IF t.id = loadSeq THEN loadSeq - 1 ELSE loadSeq
              /\ ev' = [NoEv EXCEPT !.op = "failed", !.arg = t.page]
              /\ UNCHANGED <<pageImages, lastWriter>>
    /\ UNCHANGED <<loadVars, navVars, dragVars>>
    /\ UNCHANGED <<siteVars, stale>>
    /\ observer' = (observer \/ ok)

\* mutant: the per-page .catch is missing, a failed render rejects its promise
preloadPages_NoCatch(pending, rendered) ==
    LET settled == [i \in pending |-> IF i \in rendered THEN "set" ELSE "rejected"]
    IN [resolved |-> \A i \in pending : settled[i] # "rejected",
        pages |-> {i \in pending : settled[i] = "set"}]

\* preloadPages once every render it started has settled, `rendered` being
\* the pages whose renderPage resolved: each page's promise is
\* renderPage(..).then(pages.set).catch(log), Promise.all awaits them and
\* the function returns the local Map `pages`
preloadPages(pending, rendered) ==
    LET settled == [i \in pending |-> IF i \in rendered THEN "set" ELSE "caught"]
    IN [resolved |-> \A i \in pending : settled[i] # "rejected",
        pages |-> {i \in pending : settled[i] = "set"}]

\* mutant: a pass whose centre is no longer the current page is dropped
PassResolve_CancelledByNavigation(t, done) ==
    /\ t \in tasks /\ t.kind = "pass" /\ done \subseteq t.pending
    /\ tasks' = tasks \ {t}
    /\ IF t.page = currentPage
         THEN /\ pageImages' = CachePutAll(pageImages, done, t.id)
              /\ lastWriter' = WriterPutAll(lastWriter, done, t.id)
         ELSE UNCHANGED <<pageImages, lastWriter>>
    /\ ev' = [NoEv EXCEPT !.op = "settled", !.arg = t.id,
                          !.pass = done, !.rendered = done]
    /\ UNCHANGED <<loadVars, navVars, dragVars, loadSeq>>
    /\ UNCHANGED <<siteVars, stale>>
    /\ observer' = (observer \/ ev'.op = "settled")

\* the promise of a preloadPages call settles: every render of the pass has
\* settled, `done` being the pages whose render succeeded, and the caller's
\* .then (which runs only if the promise resolved) writes the returned pages.
\* The per-render callbacks only fill the pass's local Map, which nothing
\* reads before Promise.all resolves, so the settling of a pass is one step
\* with any outcome `done`.
PassResolve(t, done) ==
    /\ t \in tasks /\ t.kind = "pass" /\ done \subseteq t.pending
    /\ tasks' = tasks \ {t}
    /\ LET r == preloadPages(t.pending, done)
       IN IF r.resolved
            THEN /\ pageImages' = CachePutAll(pageImages, r.pages, t.id)
                 /\ lastWriter' = WriterPutAll(lastWriter, r.pages, t.id)
                 /\ ev' = [NoEv EXCEPT !.op = "settled", !.arg = t.id,
                                       !.pass = r.pages, !.rendered = done]
            ELSE /\ UNCHANGED <<pageImages, lastWriter>>
                 /\ ev' = [NoEv EXCEPT !.op = "rejected", !.arg = t.id,
                                       !.rendered = done]
    /\ UNCHANGED <<loadVars, navVars, dragVars, loadSeq>>
    /\ UNCHANGED <<siteVars, stale>>
    /\ observer' = (observer \/ ev'.op = "settled")

\* ------------------------------------------------------------- navigation
\* the part of the state one handler run may touch through goToPage
NavStart ==
    [fd |-> flipDirection, timers |-> timers, tasks |-> tasks, seq |-> loadSeq,
     goto |-> <<>>, accepted |-> 0, sounds |-> 0, renders |-> <<>>]

\* mutant: loadPage renders without looking into the cache
loadPage_IgnoresCache(s, pageNum) ==
    IF pdf = NULL
      THEN s
      ELSE [s EXCEPT !.tasks = @ \cup {PageTask(s.seq + 1, pageNum, totalPages)},
                     !.seq = @ + 1,
                     !.renders = Append(@, pageNum)]

\* loadPage up to its await: reads pdf and pageImages of the last commit
loadPage(s, pageNum) ==
    IF pdf = NULL \/ pageNum \in DOMAIN pageImages
      THEN s
      ELSE [s EXCEPT !.tasks = @ \cup {PageTask(s.seq + 1, pageNum, totalPages)},
                     !.seq = @ + 1,
                     !.renders = Append(@, pageNum)]

\* mutant: the guard misses the pageNum === currentPage test
Rejected_NoSamePage(pageNum) ==
    pageNum < 1 \/ pageNum > totalPages

\* the guard of goToPage
Rejected(pageNum) ==
    pageNum < 1 \/ pageNum > totalPages \/ pageNum = currentPage

\* mutant: the flip timer is set only when the target is cached
goToPage_WaitsForRender(s, pageNum, direction) ==
    IF Rejected(pageNum)
      THEN [s EXCEPT !.goto = Append(@, pageNum)]
      ELSE loadPage([s EXCEPT !.fd = direction,
                              !.goto = Append(@, pageNum),
                              !.accepted = @ + 1,
                              !.sounds = @ + 1,
                              !.timers = IF pageNum \in DOMAIN pageImages
                                           THEN Append(@, pageNum) ELSE @],
                    pageNum)

goToPage(s, pageNum, direction) ==
    IF Rejected(pageNum)
      THEN [s EXCEPT !.goto = Append(@, pageNum)]
      ELSE loadPage([s EXCEPT !.fd = direction,
                              !.goto = Append(@, pageNum),
                              !.accepted = @ + 1,
                              !.sounds = @ + 1,
                              !.timers = Append(@, pageNum)],
                    pageNum)

WithinBounds(s) == s.seq <= MaxLoads /\ Len(s.timers) <= MaxTimers

\* commit of what a handler run did through goToPage / loadPage
Commit(s, op, arg) ==
    /\ WithinBounds(s)
    /\ flipDirection' = s.fd
    /\ timers' = s.timers
    /\ tasks' = s.tasks
    /\ loadSeq' = s.seq
    /\ ev' = [NoEv EXCEPT !.op = op, !.arg = arg,
                          !.goto = s.goto, !.accepted = s.accepted,
                          !.sounds = s.sounds, !.renders = s.renders]

ViewerShown == ~isLoading

\* the value of Map.get for a key the map does not hold
Undefined == [undefined |-> TRUE]

\* mutant: the cache hands out a re-encoded copy of the image
CacheGet_Reencodes(m, page) ==
    IF page \in DOMAIN m THEN [m[page] EXCEPT !.quality = 0] ELSE Undefined

\* pageImages.get(page): the stored string, or undefined
CacheGet(m, page) == IF page \in DOMAIN m THEN m[page] ELSE Undefined

\* what the page area renders: the loading screen, the image of the current
\* page, or the "Loading page ..." placeholder when pageImages.get(currentPage)
\* is undefined (a data URL is never the empty string)
PageView ==
    IF isLoading THEN "loading"
    ELSE IF CacheGet(pageImages, currentPage) # Undefined THEN "image" ELSE "placeholder"

handleKeyPress(key) ==
    /\ ~isLoading
    /\ LET s == CASE key \in {"ArrowLeft", "ArrowUp"} -> goToPage(NavStart, currentPage - 1, "right")
                  [] key \in {"ArrowRight", "ArrowDown"} -> goToPage(NavStart, currentPage + 1, "left")
                  [] key = "Home" -> goToPage(NavStart, 1, "right")
                  [] key = "End" -> goToPage(NavStart, totalPages, "left")
       IN Commit(s, "request", 0)
    /\ UNCHANGED <<loadVars, currentPage, dragVars, pageImages, lastWriter>>
    /\ UNCHANGED appVars

PreviousButton ==
    /\ ViewerShown /\ currentPage # 1
    /\ Commit(goToPage(NavStart, currentPage - 1, "right"), "request", 0)
    /\ UNCHANGED <<loadVars, currentPage, dragVars, pageImages, lastWriter>>
    /\ UNCHANGED appVars

NextButton ==
    /\ ViewerShown /\ currentPage # totalPages
    /\ Commit(goToPage(NavStart, currentPage + 1, "left"), "request", 0)
    /\ UNCHANGED <<loadVars, currentPage, dragVars, pageImages, lastWriter>>
    /\ UNCHANGED appVars

\* mutant: the direction test of the page input is inverted
PageInput_InvertedDirection(page) ==
    /\ ViewerShown
    /\ Commit(goToPage(NavStart, page, IF page > currentPage THEN "right" ELSE "left"),
              "request", 0)
    /\ UNCHANGED <<loadVars, currentPage, dragVars, pageImages, lastWriter>>
    /\ UNCHANGED appVars

\* onChange of the page-number input, for a value that parses to `page`
PageInput(page) ==
    /\ ViewerShown
    /\ Commit(goToPage(NavStart, page, IF page > currentPage THEN "left" ELSE "right"),
              "request", 0)
    /\ UNCHANGED <<loadVars, currentPage, dragVars, pageImages, lastWriter>>
    /\ UNCHANGED appVars

ThumbnailShown == ViewerShown /\ totalPages > 0

onPageSelect(page) ==
    /\ ThumbnailShown /\ page \in 1..totalPages
    /\ Commit(goToPage(NavStart, page, IF page > currentPage THEN "left" ELSE "right"),
              "request", 0)
    /\ UNCHANGED <<loadVars, currentPage, dragVars, pageImages, lastWriter>>
    /\ UNCHANGED appVars

\* the IntersectionObserver callback for one visible thumbnail
ThumbnailVisible(pageNum) ==
    /\ ThumbnailShown /\ pageNum \in 1..totalPages
    /\ pageNum > 0 /\ pageNum \notin DOMAIN pageImages
    /\ Commit(loadPage(NavStart, pageNum), "thumbnail", 0)
    /\ UNCHANGED <<loadVars, currentPage, dragVars, pageImages, lastWriter>>
    /\ UNCHANGED appVars

\* mutant: the callback forgets setFlipDirection(null)
FlipTimerFire_KeepsDirection ==
    /\ timers # << >>
    /\ currentPage' = Head(timers)
    /\ dragProgress' = 0
    /\ timers' = Tail(timers)
    /\ ev' = [NoEv EXCEPT !.op = "flipped", !.arg = Head(timers)]
    /\ UNCHANGED <<loadVars, flipDirection, isDragging, dragStartX, dragCurrentX, cacheVars>>
    /\ UNCHANGED appVars

\* mutant: the timer set last fires first
FlipTimerFire_LastFirst ==
    /\ timers # << >>
    /\ currentPage' = timers[Len(timers)]
    /\ flipDirection' = NULL
    /\ dragProgress' = 0
    /\ timers' = SubSeq(timers, 1, Len(timers) - 1)
    /\ ev' = [NoEv EXCEPT !.op = "flipped", !.arg = timers[Len(timers)]]
    /\ UNCHANGED <<loadVars, isDragging, dragStartX, dragCurrentX, cacheVars>>
    /\ UNCHANGED appVars

\* the callback of setTimeout(..., 400) in goToPage; equal delays fire in
\* the order they were set
FlipTimerFire ==
    /\ timers # << >>
    /\ currentPage' = Head(timers)
    /\ flipDirection' = NULL
    /\ dragProgress' = 0
    /\ timers' = Tail(timers)
    /\ ev' = [NoEv EXCEPT !.op = "flipped", !.arg = Head(timers)]
    /\ UNCHANGED <<loadVars, isDragging, dragStartX, dragCurrentX, cacheVars>>
    /\ UNCHANGED appVars

\* ---------------------------------------------------------------- gesture
\* handleMouseDown / handleTouchStart
Press(x) ==
    /\ ViewerShown
    /\ isDragging' = TRUE
    /\ dragStartX' = x
    /\ dragCurrentX' = x
    /\ ev' = NoEv
    /\ UNCHANGED <<loadVars, navVars, dragProgress, cacheVars>>
    /\ UNCHANGED appVars

\* mutant: the progress is not clamped
Move_Unclamped(x) ==
    /\ ViewerShown /\ isDragging
    /\ dragCurrentX' = x
    /\ dragProgress' = x - dragStartX
    /\ ev' = [NoEv EXCEPT !.op = "move"]
    /\ UNCHANGED <<loadVars, navVars, isDragging, dragStartX, cacheVars>>
    /\ UNCHANGED appVars

\* handleMouseMove / handleTouchMove / handleGlobalMouseMove
Move(x) ==
    /\ ViewerShown /\ isDragging
    /\ dragCurrentX' = x
    /\ dragProgress' = Progress(x - dragStartX)
    /\ ev' = [NoEv EXCEPT !.op = "move"]
    /\ UNCHANGED <<loadVars, navVars, isDragging, dragStartX, cacheVars>>
    /\ UNCHANGED appVars

\* mutant: the two directions are swapped
ReleaseNav_Swapped(s) ==
    LET deltaX == dragCurrentX - dragStartX
    IN IF Abs(deltaX) > DRAG_THRESHOLD
         THEN IF deltaX < 0 /\ currentPage > 1
                THEN goToPage(s, currentPage - 1, "right")
                ELSE IF deltaX > 0 /\ currentPage < totalPages
                       THEN goToPage(s, currentPage + 1, "left")
                       ELSE s
         ELSE s

\* mutant: the threshold test is >= instead of >
ReleaseNav_Inclusive(s) ==
    LET deltaX == dragCurrentX - dragStartX
    IN IF Abs(deltaX) >= DRAG_THRESHOLD
         THEN IF deltaX > 0 /\ currentPage > 1
                THEN goToPage(s, currentPage - 1, "right")
                ELSE IF deltaX < 0 /\ currentPage < totalPages
                       THEN goToPage(s, currentPage + 1, "left")
                       ELSE s
         ELSE s

\* the body shared by handleMouseUp, handleTouchEnd and handleGlobalMouseUp
ReleaseNav(s) ==
    LET deltaX == dragCurrentX - dragStartX
    IN IF Abs(deltaX) > DRAG_THRESHOLD
         THEN IF deltaX > 0 /\ currentPage > 1
                THEN goToPage(s, currentPage - 1, "right")
                ELSE IF deltaX < 0 /\ currentPage < totalPages
                       THEN goToPage(s, currentPage + 1, "left")
                       ELSE s
         ELSE s

ReleaseReset ==
    /\ isDragging' = FALSE
    /\ dragProgress' = 0
    /\ dragStartX' = 0
    /\ dragCurrentX' = 0

\* release over the page with the window listener already removed, or a
\* touch release: one handler runs
handleMouseUp ==
    /\ ViewerShown /\ isDragging
    /\ Commit(ReleaseNav(NavStart), "release", dragCurrentX - dragStartX)
    /\ ReleaseReset
    /\ UNCHANGED <<loadVars, currentPage, pageImages, lastWriter>>
    /\ UNCHANGED appVars

handleTouchEnd ==
    /\ ViewerShown /\ isDragging
    /\ Commit(ReleaseNav(NavStart), "release", dragCurrentX - dragStartX)
    /\ ReleaseReset
    /\ UNCHANGED <<loadVars, currentPage, pageImages, lastWriter>>
    /\ UNCHANGED appVars

\* release outside the page: only the window listener runs
handleGlobalMouseUp ==
    /\ ViewerShown /\ isDragging
    /\ Commit(ReleaseNav(NavStart), "release", dragCurrentX - dragStartX)
    /\ ReleaseReset
    /\ UNCHANGED <<loadVars, currentPage, pageImages, lastWriter>>
    /\ UNCHANGED appVars

\* release over the page delivered to onMouseUp and then to the window
\* listener of the same render: both run on the same committed state
MouseUpBoth ==
    /\ ViewerShown /\ isDragging
    /\ Commit(ReleaseNav(ReleaseNav(NavStart)), "release", dragCurrentX - dragStartX)
    /\ ReleaseReset
    /\ UNCHANGED <<loadVars, currentPage, pageImages, lastWriter>>
    /\ UNCHANGED appVars

\* the load effect and the completion of renders
LoadStep ==
    \/ LoadPDFFileStart
    \/ \E n \in 1..MaxPages : LoadPDFResolve(n)
    \/ LoadPDFReject
    \/ \E ok \in BOOLEAN : FirstPageSettle(ok)
    \/ InitialPreloadTimer
    \/ \E t \in tasks, ok \in BOOLEAN : PageRenderSettle(t, ok)
    \/ \E t \in tasks, done \in SUBSET (1..MaxPages) : PassResolve(t, done)

\* keyboard, buttons, page input, thumbnail bar
ControlStep ==
    \/ \E key \in Keys : handleKeyPress(key)
    \/ PreviousButton
    \/ NextButton
    \/ \E page \in 0..(MaxPages + 1) : PageInput(page)
    \/ \E page \in 1..MaxPages : onPageSelect(page)
    \/ \E page \in 1..MaxPages : ThumbnailVisible(page)

\* pointer and touch gestures on the page
GestureStep ==
    \/ \E x \in PressCoords : Press(x)
    \/ \E x \in MoveCoords : Move(x)
    \/ handleMouseUp
    \/ handleTouchEnd
    \/ handleGlobalMouseUp
    \/ MouseUpBoth

Next == LoadStep \/ ControlStep \/ GestureStep \/ FlipTimerFire

\* the viewer with every input
Spec == Init /\ [][Next]_vars

\* the viewer driven by keyboard, buttons, page input and thumbnail bar
NextControls == LoadStep \/ ControlStep \/ FlipTimerFire
SpecControls == Init /\ [][NextControls]_vars

\* the viewer driven by gestures
NextGestures == LoadStep \/ GestureStep \/ FlipTimerFire
SpecGestures == Init /\ [][NextGestures]_vars

\* every render settles: pdf.js resolves or rejects each render promise, so
\* the page task and the pass of every loadPage call (0: the load) settle
RendersSettle ==
    \A id \in 0..MaxLoads :
        /\ WF_vars(\E t \in tasks : t.id = id /\ \E ok \in BOOLEAN : PageRenderSettle(t, ok))
        /\ WF_vars(\E t \in tasks : t.id = id
                      /\ \E done \in SUBSET (1..MaxPages) : PassResolve(t, done))

\* every pending setTimeout callback of goToPage runs
TimersFire == WF_vars(FlipTimerFire)

\* keyboard, buttons, page input and thumbnail bar, with renders that settle
\* and timers that fire
SpecControlsFair == SpecControls /\ RendersSettle /\ TimersFire

\* ------------------------------------------------------------ step kinds
\* a step in which a handler called goToPage at least once
RequestStep == ev'.goto # << >>
\* a step of handleMouseUp / handleTouchEnd / handleGlobalMouseUp
ReleaseStep == isDragging /\ ~isDragging'
\* a step of the flip timer callback
TimerStep == timers # << >> /\ timers' = Tail(timers)
\* a step in which preloadPages was called
PassStep == ev'.center # 0
InvalidTarget(p) == p = currentPage \/ p < 1 \/ p > totalPages
FlipInProgress == flipDirection # NULL /\ timers # << >>
Targets(e) == {e.goto[i] : i \in 1..Len(e.goto)}

\* C1: a navigation request with a valid target issued while a flip is in
\* progress is a no-op: flipDirection and the pending timers are unchanged and
\* no timer, render or sound is started.
C1_RequestWhileFlippingIsNoOp ==
    [][(FlipInProgress /\ RequestStep /\ \A p \in Targets(ev') : ~InvalidTarget(p))
        => /\ flipDirection' = flipDirection
           /\ timers' = timers
           /\ ev'.accepted = 0 /\ ev'.sounds = 0 /\ ev'.renders = << >>]_vars

\* C2: in every reachable state at most one flip-completion timer is pending.
C2_AtMostOneFlipInFlight == Len(timers) <= 1

\* C3: a request for a valid page p other than the current one, made while
\* flipDirection is null, sets flipDirection and schedules exactly one timer
\* for p without touching currentPage; the timer, when it fires, is consumed
\* and sets currentPage to p and flipDirection to null.
C3_IdleRequestFlipsThenCommits ==
    [][/\ (flipDirection = NULL /\ RequestStep /\ ev'.op = "request"
             /\ ~InvalidTarget(ev'.goto[1]))
          => /\ flipDirection' # NULL
             /\ timers' = Append(timers, ev'.goto[1])
             /\ currentPage' = currentPage
       /\ (Len(timers') < Len(timers))
          => /\ timers' = Tail(timers)
             /\ currentPage' = Head(timers)
             /\ flipDirection' = NULL
       /\ (currentPage' # currentPage) => TimerStep]_vars

C3_Witness ==
    /\ ev.op = "request" /\ ev.accepted = 1
    /\ flipDirection # NULL /\ Len(timers) = 1 /\ timers[1] # currentPage

\* C4: a request whose target is the current page, below 1 or above totalPages
\* changes nothing: no state variable changes and no timer, render or sound
\* is started.
C4_InvalidRequestChangesNothing ==
    [][(RequestStep /\ \E p \in Targets(ev') : InvalidTarget(p))
        => /\ UNCHANGED <<loadVars, navVars, dragVars, cacheVars>>
           /\ ev'.accepted = 0 /\ ev'.sounds = 0 /\ ev'.renders = << >>]_vars

C4_Witness ==
    /\ ev.op = "request" /\ ev.accepted = 0
    /\ totalPages = MaxPages
    /\ \/ ev.goto = <<0>> /\ currentPage = 1
       \/ ev.goto = <<totalPages + 1>> /\ currentPage = totalPages

\* C5: a preload pass from page p starts renders for exactly the pages of
\* max(1,p-r)..min(T,p+r) other than p that are not in the cache.
C5_PassSkipsCachedPages ==
    [][PassStep
        => ev'.pass = ({i \in Max(1, ev'.center - PreloadRange) ..
                               Min(totalPages, ev'.center + PreloadRange) :
                          i # ev'.center}
                       \ DOMAIN pageImages')]_vars

\* C6: a release with |delta| > 50 requests currentPage + 1 when delta < 0 and
\* currentPage < totalPages, currentPage - 1 when delta > 0 and
\* currentPage > 1, and nothing at the two boundaries.
C6_ReleaseBeyondThresholdNavigates ==
    [][ReleaseStep
        => LET deltaX == dragCurrentX - dragStartX
           IN /\ (deltaX < -DRAG_THRESHOLD /\ currentPage < totalPages)
                   => ev'.goto # << >> /\ Targets(ev') = {currentPage + 1}
              /\ (deltaX > DRAG_THRESHOLD /\ currentPage > 1)
                   => ev'.goto # << >> /\ Targets(ev') = {currentPage - 1}
              /\ (deltaX < -DRAG_THRESHOLD /\ currentPage >= totalPages)
                   => ev'.goto = << >>
              /\ (deltaX > DRAG_THRESHOLD /\ currentPage <= 1)
                   => ev'.goto = << >>]_vars

C6_Witness ==
    /\ ev.op = "release" /\ ev.arg < -DRAG_THRESHOLD
    /\ ev.goto # << >> /\ ev.accepted > 0
    /\ Head(ev.goto) = currentPage + 1

\* C7: a release with |delta| <= 50 calls goToPage not at all, leaves
\* currentPage, flipDirection and the pending timers alone and resets
\* dragProgress to 0.
C7_ReleaseWithinThresholdDoesNotNavigate ==
    [][(ReleaseStep /\ Abs(dragCurrentX - dragStartX) <= DRAG_THRESHOLD)
        => /\ ev'.goto = << >> /\ ev'.accepted = 0 /\ ev'.renders = << >>
           /\ UNCHANGED <<currentPage, flipDirection, timers>>
           /\ dragProgress' = 0]_vars

C7_Witness ==
    /\ ev.op = "release" /\ Abs(ev.arg) = DRAG_THRESHOLD
    /\ ev.goto = << >> /\ ~isDragging /\ dragProgress = 0
    /\ totalPages = MaxPages /\ currentPage \in 2..(totalPages - 1)

\* C8: every firing of the flip timer sets currentPage to the target, sets
\* dragProgress to 0 and starts a preload pass centred on the new current page.
C8_FlipCompletionPreloads ==
    [][TimerStep
        => /\ currentPage' = Head(timers)
           /\ dragProgress' = 0
           /\ ev'.center = currentPage']_vars

\* C9: no cache update is lost and the last writer wins: the cache holds
\* exactly the pages some completed task wrote, each with the image of the
\* task whose write of that page completed last.
C9_LastWriterWins ==
    /\ DOMAIN pageImages = DOMAIN lastWriter
    /\ \A p \in DOMAIN lastWriter : pageImages[p] = Image(p, lastWriter[p])

\* page 1 was written by the load and overwritten by the pass of a later
\* loadPage call while another task is still in flight
C9_Witness ==
    /\ loadPhase = "done"
    /\ 1 \in DOMAIN pageImages /\ pageImages[1].jpeg.by >= 1
    /\ Cardinality(DOMAIN pageImages) >= 2
    /\ tasks # {}

\* C10: a page that is in the cache stays in the cache.
C10_NoEviction ==
    [][DOMAIN pageImages \subseteq DOMAIN pageImages']_vars

C10_Witness ==
    /\ Cardinality(DOMAIN pageImages) = MaxPages
    /\ currentPage # 1 /\ loadSeq >= 1
    /\ \E p \in DOMAIN pageImages : pageImages[p].jpeg.by = 0

\* a render of page p started by the preload pass of loadPage call id
PassInFlight(id, p) ==
    \E t \in tasks : t.kind = "pass" /\ t.id = id /\ p \in t.pending
\* the last step was the resolution of the pass of loadPage call id
PassSettled(id) == ev.op = "settled" /\ ev.arg = id

\* C11: navigation does not cancel a preload pass: every pass in flight
\* resolves, whatever the user does meanwhile; each of its pages whose render
\* succeeded is then in the cache, and for the others nothing but the pass
\* itself changes (no cache entry, no loading or navigation state).
C11_PassSurvivesNavigation ==
    /\ \A id \in 0..MaxLoads : \A p \in 1..MaxPages :
          PassInFlight(id, p)
            ~> (PassSettled(id) /\ (p \in ev.pass => p \in DOMAIN pageImages))
    /\ [][(ev'.op = "settled")
            => /\ ev'.pass \subseteq DOMAIN pageImages'
               /\ \A p \in 1..MaxPages : p \notin ev'.pass =>
                     /\ (p \in DOMAIN pageImages') = (p \in DOMAIN pageImages)
                     /\ p \in DOMAIN pageImages => pageImages'[p] = pageImages[p]
               /\ UNCHANGED <<loadVars, navVars, dragVars>>]_vars

\* the load's pass resolved after the user had left page 1, one of its
\* renders having succeeded and one having failed
C11_Witness ==
    /\ PassSettled(0) /\ currentPage # 1 /\ totalPages = MaxPages
    /\ ev.pass # {} /\ ev.pass \subseteq DOMAIN pageImages
    /\ \E p \in 2..totalPages : p \notin ev.pass /\ p \notin DOMAIN pageImages

\* C12: a preload pass always resolves, with exactly the pages whose render
\* succeeded, whatever renders failed; these pages are then in the cache with
\* the pass's images, and currentPage, flipDirection and the pending flip
\* timers are as before.
C12_PassFailuresAreIsolated ==
    [][\A t \in tasks : (t.kind = "pass" /\ t \notin tasks')
         => /\ ev'.op = "settled"
            /\ ev'.pass = ev'.rendered
            /\ \A p \in ev'.rendered :
                  p \in DOMAIN pageImages' /\ pageImages'[p] = Image(p, t.id)
            /\ UNCHANGED <<currentPage, flipDirection, timers>>]_vars

\* the load's pass resolved with one page although the render of another
\* failed, while a flip was in progress
C12_Witness ==
    /\ PassSettled(0) /\ totalPages = MaxPages
    /\ Cardinality(ev.rendered) = 1 /\ ev.pass = ev.rendered
    /\ flipDirection # NULL /\ timers # << >>

\* a step in which the render awaited by a loadPage call failed
RenderFails == ev'.op = "failed"
\* the pages for which the step started a render from loadPage
Renders(e) == {e.renders[i] : i \in 1..Len(e.renders)}

\* C13: when the render awaited by loadPage(n) fails, the cache (page n's
\* absence included), the navigation state and the loading state are
\* unchanged; and an accepted request for n that follows the failure, n still
\* being absent, starts the render of n again.
C13_RenderFailureIsOnlyLogged ==
    [][/\ RenderFails
          => /\ UNCHANGED <<pageImages, loadVars, navVars, dragVars>>
             /\ \A t \in tasks \ tasks' :
                   t.page \notin DOMAIN pageImages => t.page \notin DOMAIN pageImages'
       /\ (/\ ev.op = "failed" /\ ev.arg \notin DOMAIN pageImages
           /\ ev'.accepted > 0 /\ ev'.goto[Len(ev'.goto)] = ev.arg)
          => ev.arg \in Renders(ev')]_vars

\* the render of the page being shown has failed: the page is absent, the
\* viewer is idle on its placeholder, and loadPage for it starts a render
C13_Witness ==
    /\ ev.op = "failed" /\ ev.arg \notin DOMAIN pageImages
    /\ currentPage = ev.arg /\ pdf # NULL /\ timers = << >>
    /\ loadPage(NavStart, ev.arg).renders = <<ev.arg>>
    /\ WithinBounds(loadPage(NavStart, ev.arg))

\* the last step was the firing of the flip timer for page p
Flipped(p) == ev.op = "flipped" /\ ev.arg = p

\* C14: an accepted request for a page that is not in the cache schedules its
\* flip timer all the same; every pending timer fires and sets currentPage to
\* its target, whatever the state of the target's render; and once the viewer
\* is shown the placeholder is displayed exactly when the cache has no entry
\* for currentPage.
C14_CacheMissDoesNotBlockFlip ==
    /\ [][(ev'.accepted > 0 /\ ev'.goto[Len(ev'.goto)] \notin DOMAIN pageImages)
            => /\ timers' # << >>
               /\ timers'[Len(timers')] = ev'.goto[Len(ev'.goto)]
               /\ Len(timers') = Len(timers) + ev'.accepted]_vars
    /\ \A p \in 1..MaxPages : \A k \in 1..MaxTimers :
          (Len(timers) >= k /\ timers[k] = p /\ p \notin DOMAIN pageImages)
            ~> (Flipped(p) /\ currentPage = p)
    /\ [](ViewerShown =>
            ((PageView = "placeholder") <=> (currentPage \notin DOMAIN pageImages)))

\* the flip to an uncached page has completed while its render is still in
\* flight: the placeholder is shown
C14_Witness ==
    /\ Flipped(currentPage) /\ currentPage \notin DOMAIN pageImages
    /\ \E t \in tasks : t.kind = "page" /\ t.page = currentPage
    /\ PageView = "placeholder" /\ flipDirection = NULL

\* C15: every accepted navigation request, from whichever control, sets the
\* flip direction to 'left' (forward) if its target is above the current page
\* and to 'right' (backward) otherwise.
C15_DirectionFollowsTarget ==
    [][(ev'.accepted > 0)
        => flipDirection' = IF ev'.goto[Len(ev'.goto)] > currentPage
                              THEN "left" ELSE "right"]_vars

\* a drag to the right was released on a page above 1: backward flip
C15_Witness ==
    /\ ev.op = "release" /\ ev.arg > DRAG_THRESHOLD /\ ev.accepted > 0
    /\ ev.goto[1] = currentPage - 1 /\ flipDirection = "right"

\* C16: every key of the page cache is a page number of the loaded document.
C16_CacheKeysAreValidPages ==
    \A p \in DOMAIN pageImages : 1 <= p /\ p <= totalPages

\* the cache holds every page of the document: page 1 from the load, page 2
\* from the load's preload pass and the last page from a loadPage call
C16_Witness ==
    /\ totalPages = MaxPages /\ DOMAIN pageImages = 1..totalPages
    /\ pageImages[1].jpeg.by = 0 /\ pageImages[2].jpeg.by = 0
    /\ pageImages[totalPages].jpeg.by >= 1

\* C17 as stated: dragProgress is within [-1, 1], equals
\* clamp(delta / 200, -1, 1) for the current delta while a gesture is active,
\* and is 0 when no gesture is active (progress in units of 1/200).
C17_ProgressTracksLastMove ==
    /\ dragProgress \in (-DragNormDistance)..DragNormDistance
    /\ dragProgress = IF isDragging THEN Progress(dragCurrentX - dragStartX) ELSE 0

\* C17 amended: dragProgress is always within [-1, 1] and is 0 when no
\* gesture is active; every move of an active gesture sets it to
\* clamp(delta / 200, -1, 1); while the gesture stays active only a move or a
\* flip timer, which resets it to 0, changes it.
C17_ProgressBoundedSetByMoves ==
    /\ [](/\ dragProgress \in (-DragNormDistance)..DragNormDistance
          /\ ~isDragging => dragProgress = 0)
    /\ [][/\ (ev'.op = "move")
               => dragProgress' = Progress(dragCurrentX' - dragStartX')
          /\ (isDragging /\ isDragging' /\ dragProgress' # dragProgress)
               => \/ ev'.op = "move"
                  \/ TimerStep /\ dragProgress' = 0]_vars

\* a flip timer has fired during a gesture whose pointer is 50 units left of
\* its start: the progress is 0, not -50/200
C17_Witness ==
    /\ isDragging /\ ev.op = "flipped"
    /\ dragCurrentX - dragStartX = -DRAG_THRESHOLD /\ dragProgress = 0

\* the pages a step writes to the cache, t being the task that settles in it
Written(t, e) ==
    IF t.kind = "pass" THEN e.pass
    ELSE IF e.op = "failed" THEN {} ELSE {t.page}

\* C18: a read of the cache returns the image that was written: when a task
\* settles, every page it writes reads back as the very image the task put,
\* and every other page reads as before; the load's write of page 1 reads
\* back likewise; no other step changes what any page reads as.
C18_CacheReturnsWhatWasPut ==
    [][/\ \A t \in tasks \ tasks' :
            /\ \A p \in Written(t, ev') :
                  CacheGet(pageImages', p) = canvasToImageUrl(Canvas(p, t.id), JpegQuality)
            /\ \A q \in (1..MaxPages) \ Written(t, ev') :
                  CacheGet(pageImages', q) = CacheGet(pageImages, q)
       /\ (loadPhase = "renderFirst" /\ loadPhase' = "preloadWait")
            => /\ CacheGet(pageImages', 1) = canvasToImageUrl(Canvas(1, 0), JpegQuality)
               /\ \A q \in 2..MaxPages : CacheGet(pageImages', q) = CacheGet(pageImages, q)
       /\ (tasks \ tasks' = {} /\ loadPhase # "renderFirst")
            => \A q \in 1..MaxPages : CacheGet(pageImages', q) = CacheGet(pageImages, q)]_vars

\* the pass of a loadPage call has just overwritten page 1, which reads as
\* that pass's image, while page 2 still reads as the load's pass wrote it
C18_Witness ==
    /\ PassSettled(1) /\ ev.pass = {1}
    /\ CacheGet(pageImages, 1) = Image(1, 1)
    /\ CacheGet(pageImages, 2) = Image(2, 0)

\* C19: whenever the viewer has left the loading state with a document
\* loaded, page 1 is in the page cache.
C19_FirstPageCachedWhenShown ==
    (~isLoading /\ pdf # NULL) => 1 \in DOMAIN pageImages

\* the load ended in the catch block without a document
LoadAborted == loadPhase = "failed" /\ pdf = NULL

\* C20: when no source is given or loadPDF rejects, the load ends at once
\* with isLoading false, no document, totalPages 0, an empty cache and no
\* render or preload in flight; and from then on none of this changes and
\* the load is not started again.
C20_InvalidDocumentAbortsLoad ==
    /\ [](LoadAborted
            => /\ ~isLoading /\ totalPages = 0 /\ pageImages = << >>
               /\ tasks = {} /\ timers = << >> /\ currentPage = 1)
    /\ [][/\ ((loadPhase = "mount" /\ source = NULL) \/ loadPhase = "loadPDF")
               => (pdf' = NULL => LoadAborted')
          /\ LoadAborted
               => /\ LoadAborted'
                  /\ UNCHANGED <<isLoading, totalPages, pageImages, tasks, timers>>
                  /\ ev'.renders = << >> /\ ev'.center = 0]_vars

\* after loadPDF rejected for a given source the user pressed a key: the
\* request was rejected and the viewer is still empty
C20_Witness ==
    /\ LoadAborted /\ source # NULL /\ ~isLoading
    /\ ev.op = "request" /\ ev.accepted = 0 /\ ev.goto # << >>
    /\ totalPages = 0 /\ pageImages = << >>


\* ------------------------------------------------------------ conversions
\* the characters the encoders escape, with the two hex digits of each
Escaped == {" ", "&", "=", "+", "%", "?", ":", "/", "#"}
PctCode(c) ==
    CASE c = " " -> <<"2", "0">>
      [] c = "#" -> <<"2", "3">>
      [] c = "%" -> <<"2", "5">>
      [] c = "&" -> <<"2", "6">>
      [] c = "+" -> <<"2", "B">>
      [] c = "/" -> <<"2", "F">>
      [] c = ":" -> <<"3", "A">>
      [] c = "=" -> <<"3", "D">>
      [] c = "?" -> <<"3", "F">>

RECURSIVE Flatten(_)
Flatten(ss) == IF ss = << >> THEN << >> ELSE Head(ss) \o Flatten(Tail(ss))

\* String.prototype.indexOf, 1-based, 0 when absent
IndexOf(s, c) ==
    IF \E i \in 1..Len(s) : s[i] = c
      THEN CHOOSE i \in 1..Len(s) : s[i] = c /\ \A j \in 1..(i - 1) : s[j] # c
      ELSE 0

\* String.prototype.split with a one-character separator
RECURSIVE split(_, _)
split(s, c) ==
    LET i == IndexOf(s, c)
    IN  IF i = 0 THEN <<s>>
        ELSE <<SubSeq(s, 1, i - 1)>> \o split(SubSeq(s, i + 1, Len(s)), c)

\* String.prototype.trim
RECURSIVE trim(_)
trim(s) ==
    IF s = << >> THEN s
    ELSE IF Head(s) = " " THEN trim(Tail(s))
    ELSE IF s[Len(s)] = " " THEN trim(SubSeq(s, 1, Len(s) - 1))
    ELSE s

\* mutant: the separators of the query are left unescaped
encodeURIComponent_KeepsSeparators(s) ==
    Flatten([i \in 1..Len(s) |->
        IF s[i] \in Escaped \ {"&", "="} THEN <<"%">> \o PctCode(s[i]) ELSE <<s[i]>>])

\* encodeURIComponent: every character but the unreserved ones is escaped
encodeURIComponent(s) ==
    Flatten([i \in 1..Len(s) |->
        IF s[i] \in Escaped THEN <<"%">> \o PctCode(s[i]) ELSE <<s[i]>>])

\* the application/x-www-form-urlencoded byte serializer of
\* URLSearchParams.toString(): a space becomes "+", the rest is escaped
urlencodedSerialize(s) ==
    Flatten([i \in 1..Len(s) |->
        IF s[i] = " " THEN <<"+">>
        ELSE IF s[i] \in Escaped THEN <<"%">> \o PctCode(s[i]) ELSE <<s[i]>>])

\* percent-decoding: "%" and two hex digits give the character back
RECURSIVE percentDecode(_)
percentDecode(s) ==
    IF s = << >> THEN << >>
    ELSE IF /\ s[1] = "%" /\ Len(s) >= 3
            /\ \E c \in Escaped : PctCode(c) = <<s[2], s[3]>>
      THEN <<CHOOSE c \in Escaped : PctCode(c) = <<s[2], s[3]>> >>
               \o percentDecode(SubSeq(s, 4, Len(s)))
    ELSE <<s[1]>> \o percentDecode(Tail(s))

\* the urlencoded parser's decoding of a name or value: "+" reads as a space
urlencodedDecode(s) ==
    percentDecode([i \in 1..Len(s) |-> IF s[i] = "+" THEN " " ELSE s[i]])

\* new URLSearchParams(query).get(name): the value of the first pair
\* called name, found FALSE being null
SearchParamsGet(query, name) ==
    LET pieces == SelectSeq(split(query, "&"), LAMBDA piece : piece # << >>)
        Name(piece) ==
            LET i == IndexOf(piece, "=")
            IN  urlencodedDecode(IF i = 0 THEN piece ELSE SubSeq(piece, 1, i - 1))
        Value(piece) ==
            LET i == IndexOf(piece, "=")
            IN  urlencodedDecode(IF i = 0 THEN << >> ELSE SubSeq(piece, i + 1, Len(piece)))
        named == SelectSeq(pieces, LAMBDA piece : Name(piece) = name)
    IN  IF named = << >> THEN [found |-> FALSE, value |-> << >>]
        ELSE [found |-> TRUE, value |-> Value(Head(named))]

\* the pairs of a URLSearchParams as toString() writes them
SearchParamsToString(pairs) ==
    Flatten([i \in 1..Len(pairs) |->
        (IF i = 1 THEN << >> ELSE <<"&">>)
            \o urlencodedSerialize(pairs[i].name) \o <<"=">>
            \o urlencodedSerialize(pairs[i].value)])

\* what the URL parser stores for a fragment, and location.hash gives back:
\* a space is escaped, everything else is kept
Fragment(s) ==
    Flatten([i \in 1..Len(s) |-> IF s[i] = " " THEN <<"%", "2", "0">> ELSE <<s[i]>>])


\* ------------------------------------------------------------ upload relay
\* file names and titles sent to the relay
UploadNames == {<<"a">>, <<"a", " ", "a">>}
UploadTitles == {<< >>, <<"a", "&", "a">>}
\* POST /upload requests of any HTTP client: the Origin header (absent,
\* an allowed frontend, another site), a multipart body or another body,
\* the form field that carries the file and the file's type and name, and
\* the title field
ClientRequests ==
    {r \in [from : {"client"}, origin : {"none", "allowed", "other"},
            multipart : BOOLEAN, field : {"file", "other", "none"},
            mimetype : {"application/pdf", "text/plain"},
            originalname : UploadNames, title : UploadTitles] :
        /\ ~r.multipart =>
              /\ r.field = "none"
              /\ r.title = << >>
        /\ r.field = "none" =>
              /\ r.mimetype = "application/pdf"
              /\ r.originalname = <<"a">>}
\* the request handleUpload sends: the raw PDF as the body, Content-Type
\* application/pdf, the name in X-Filename, no form field
FrontendRequest(origin) ==
    [from |-> "frontend", origin |-> origin, multipart |-> FALSE, field |-> "none",
     mimetype |-> "application/pdf", originalname |-> <<"a">>, title |-> << >>]

\* the origin callback of the cors middleware
corsAllows(r) == r.origin \in {"none", "allowed"}
\* upload.single('file'): a multipart body with a file in another field is
\* an error, a body that is not multipart is passed on untouched
multerRejects(r) == r.multipart /\ r.field = "other"
\* req.file
HasFile(r) == r.multipart /\ r.field = "file"
\* req.body is an object: multer sets it for a multipart body, express.json
\* for any other body only in the versions that default it to {}
HasBody(env, r) == r.multipart \/ env.emptyBody = "object"

\* file.originalname.replace(/[^a-zA-Z0-9.\-_]/g, '_')
safeName(name) == [i \in 1..Len(name) |-> IF name[i] = "a" THEN "a" ELSE "_"]
\* `catalogue/${timestamp}-${safeName}`
UploadPath(r) == <<"catalogue", "/", "timestamp", "-">> \o safeName(r.originalname)
\* the raw.githubusercontent.com URL of the uploaded file
PdfUrl(r) == <<"https", ":", "/", "/", "raw.githubusercontent.com", "/">> \o UploadPath(r)
\* req.body.title || file?.originalname || 'Flipbook'
UploadTitle(r) ==
    IF r.title # << >> THEN r.title
    ELSE IF HasFile(r) /\ r.originalname # << >> THEN r.originalname
    ELSE <<"Flipbook">>
\* url.hash = `#/view?pdf=${...}&title=${...}`; url.toString()
ViewerUrl(pdfUrl, title) ==
    <<"FRONTEND_BASE_URL">>
        \o Fragment(<<"#/view", "?", "pdf", "=">> \o encodeURIComponent(pdfUrl)
                      \o <<"&", "title", "=">> \o encodeURIComponent(title))
\* res.json({ pdfUrl, viewerUrl, title, path })
SuccessBody(r) ==
    [status |-> 200, error |-> "", pdfUrl |-> PdfUrl(r),
     viewerUrl |-> ViewerUrl(PdfUrl(r), UploadTitle(r)),
     title |-> UploadTitle(r), path |-> UploadPath(r)]

Answer(res) == [await |-> FALSE, res |-> res]
AwaitGitHub == [await |-> TRUE, res |-> Response(0, "")]

\* mutant: the file is written before its type is checked
uploadHandler_WritesBeforeTypeCheck(env, r) ==
    IF ~env.configured
      THEN Answer(Response(500, "GitHub environment variables not configured"))
    ELSE IF ~HasBody(env, r) THEN Answer(Response(500, "Internal server error"))
    ELSE IF ~HasFile(r) THEN Answer(Response(400, "No file uploaded"))
    ELSE AwaitGitHub

\* the route handler from its entry to its response or to the GitHub PUT
uploadHandler(env, r) ==
    IF ~env.configured
      THEN Answer(Response(500, "GitHub environment variables not configured"))
    ELSE IF ~HasBody(env, r) THEN Answer(Response(500, "Internal server error"))
    ELSE IF ~HasFile(r) THEN Answer(Response(400, "No file uploaded"))
    ELSE IF r.mimetype # "application/pdf"
      THEN Answer(Response(400, "Only PDF files are allowed"))
    ELSE AwaitGitHub

\* the middleware in front of the handler: an error of cors or multer goes
\* to the default error handler of express, which answers 500
PostUpload(env, r) ==
    IF ~corsAllows(r) THEN Answer(Response(500, "Not allowed by CORS"))
    ELSE IF multerRejects(r) THEN Answer(Response(500, "Unexpected field"))
    ELSE uploadHandler(env, r)

\* the relay after request r arrived and ran to its response or its PUT
Received(r) ==
    LET o == PostUpload(relay.env, r)
    IN  IF o.await
          THEN [relay EXCEPT !.phase = "github", !.req = r, !.puts = @ + 1]
          ELSE [relay EXCEPT !.phase = "responded", !.req = r,
                             !.res = Append(@, o.res)]

\* a client other than the frontend posts a request
ClientPost(r) ==
    /\ relay.phase = "idle"
    /\ relay' = Received(r)
    /\ UNCHANGED <<viewerVars, source, app, share, stale, observer>>

\* the PUT to the GitHub contents API settled
GitHubSettle ==
    /\ relay.phase = "github"
    /\ relay' =
         [relay EXCEPT
            !.phase = "responded",
            !.res = Append(@,
                CASE relay.env.github = "ok" -> SuccessBody(relay.req)
                  [] relay.env.github = "notok" ->
                        Response(500, "Failed to upload to GitHub")
                  [] relay.env.github = "throws" ->
                        Response(500, "Internal server error"))]
    /\ UNCHANGED <<viewerVars, source, app, share, stale, observer>>

\* ------------------------------------------------------------ App: upload
Files == {"valid.pdf", "broken.pdf"}

\* handleUpload up to `await loadPDF(file)`
handleUpload(file) ==
    /\ app.phase = "idle"
    /\ app' = [app EXCEPT !.phase = "loadPDF", !.file = file, !.isProcessing = TRUE]
    /\ UNCHANGED <<viewerVars, source, relay, share, stale, observer>>

\* the catch and finally blocks of handleUpload
Caught(a, why) ==
    [a EXCEPT !.phase = "done", !.alerts = @ + 1, !.failure = why,
              !.isProcessing = FALSE]

\* loadPDF settled: handleUpload runs on to fetch, to setCurrentPDF or to
\* its catch block; a fetch to another origin is preceded by a preflight,
\* which the cors middleware answers without allowing X-Filename, so the
\* POST is sent only to the frontend's own origin
LoadPDFSettle(origin) ==
    /\ app.phase = "loadPDF"
    /\ IF app.file = "broken.pdf"
         THEN /\ app' = Caught(app, "loadPDF")
              /\ relay' = relay
       ELSE IF ~app.backendEndpoint
         THEN /\ app' = [app EXCEPT !.phase = "done", !.currentPDF = app.file,
                                    !.isProcessing = FALSE]
              /\ relay' = relay
       ELSE IF app.crossOrigin
         THEN /\ app' = [app EXCEPT !.phase = "fetch", !.fetches = @ + 1]
              /\ relay' = relay
       ELSE /\ relay.phase = "idle"
            /\ app' = [app EXCEPT !.phase = "fetch", !.fetches = @ + 1,
                                  !.sent = TRUE]
            /\ relay' = Received(FrontendRequest(origin))
    /\ UNCHANGED <<viewerVars, source, share, stale, observer>>

\* mutant: a failed upload falls back to the local viewer
FetchSettle_FallsBack ==
    /\ app.phase = "fetch" /\ app.sent
    /\ relay.phase = "responded" /\ relay.req.from = "frontend"
    /\ LET response == relay.res[Len(relay.res)]
       IN  app' = IF response.status \in 200..299
                    THEN [app EXCEPT !.phase = "done", !.isProcessing = FALSE,
                                     !.redirects = Append(@, response.viewerUrl)]
                    ELSE [app EXCEPT !.phase = "done", !.isProcessing = FALSE,
                                     !.failure = "status", !.currentPDF = app.file]
    /\ UNCHANGED <<viewerVars, source, relay, share, stale, observer>>

\* the fetch resolved with the relay's response
FetchSettle ==
    /\ app.phase = "fetch" /\ app.sent
    /\ relay.phase = "responded" /\ relay.req.from = "frontend"
    /\ LET response == relay.res[Len(relay.res)]
       IN  app' = IF response.status \in 200..299
                    THEN [app EXCEPT !.phase = "done", !.isProcessing = FALSE,
                                     !.redirects = Append(@, response.viewerUrl)]
                    ELSE Caught(app, "status")
    /\ UNCHANGED <<viewerVars, source, relay, share, stale, observer>>

\* the fetch rejected: the preflight failed or the network did
FetchReject ==
    /\ app.phase = "fetch"
    /\ app' = Caught(app, IF app.sent THEN "network" ELSE "preflight")
    /\ UNCHANGED <<viewerVars, source, relay, share, stale, observer>>

\* one upload through the App and one request to the relay
InitUpload ==
    /\ \E backendEndpoint \in BOOLEAN, crossOrigin \in BOOLEAN :
          app = [AppIdle EXCEPT !.backendEndpoint = backendEndpoint,
                                !.crossOrigin = crossOrigin]
    /\ \E env \in Envs : relay = [RelayIdle EXCEPT !.env = env]
    /\ share = ShareIdle
    /\ source = NULL
    /\ ViewerInit

NextUpload ==
    \/ \E r \in ClientRequests : ClientPost(r)
    \/ GitHubSettle
    \/ \E file \in Files : handleUpload(file)
    \/ \E origin \in {"none", "allowed", "other"} : LoadPDFSettle(origin)
    \/ FetchSettle
    \/ FetchReject

SpecUpload == InitUpload /\ [][NextUpload]_vars


\* ------------------------------------------------------------ C21
\* the request got past the cors and multer middleware, and the handler
\* either stops at the configuration check or finds req.body an object
ReachesChecks(env, r) ==
    /\ corsAllows(r)
    /\ ~multerRejects(r)
    /\ HasBody(env, r) \/ ~env.configured
\* the response is the success body of the request
IsSuccess(res, r) ==
    /\ res.status = 200
    /\ res.pdfUrl = PdfUrl(r)
    /\ res.viewerUrl = ViewerUrl(PdfUrl(r), UploadTitle(r))
    /\ res.title = UploadTitle(r)
    /\ res.path = UploadPath(r)
\* the response follows the order of the handler's checks
InHandlerOrder(env, r, res) ==
    IF ~env.configured
      THEN res.status = 500 /\ res.error = "GitHub environment variables not configured"
    ELSE IF ~HasFile(r) THEN res.status = 400 /\ res.error = "No file uploaded"
    ELSE IF r.mimetype # "application/pdf"
      THEN res.status = 400 /\ res.error = "Only PDF files are allowed"
    ELSE IF env.github # "ok" THEN res.status = 500
    ELSE IsSuccess(res, r)
\* at most one response, none before the request is finished, and at most
\* one write, attempted only after the three checks passed
OneResponseWriteLast ==
    /\ Len(relay.res) = (IF relay.phase = "responded" THEN 1 ELSE 0)
    /\ relay.puts = (IF \/ relay.phase = "github"
                        \/ relay.phase = "responded" /\ relay.res[1].status = 200
                        \/ /\ relay.phase = "responded"
                           /\ relay.res[1].error = "Failed to upload to GitHub"
                        \/ /\ relay.phase = "responded" /\ relay.env.github = "throws"
                           /\ relay.res[1].error = "Internal server error"
                           /\ HasBody(relay.env, relay.req)
                      THEN 1 ELSE 0)
    /\ relay.puts > 0 =>
          /\ relay.env.configured
          /\ HasFile(relay.req)
          /\ relay.req.mimetype = "application/pdf"

UploadAttempted == app.phase = "done" /\ app.fetches = 1

\* C22: with a backend URL configured, the environment set and GitHub
\* accepting the write, the request handleUpload builds for a valid PDF
\* (raw body, Content-Type application/pdf, X-Filename) is answered with the
\* success body and the browser is redirected to the returned viewerUrl
\* (unless the network itself fails).
C22_RelayAcceptsFrontendRequest ==
    (/\ UploadAttempted
     /\ relay.env.configured
     /\ relay.env.github = "ok"
     /\ app.failure # "network")
        => /\ app.failure = ""
           /\ relay.phase = "responded"
           /\ IsSuccess(relay.res[1], relay.req)
           /\ app.redirects = <<relay.res[1].viewerUrl>>


\* ------------------------------------------------------------ C23
\* the awaited fetch settled without an OK response in hand
UploadFails ==
    /\ app.phase = "fetch"
    /\ app'.phase # "fetch"
    /\ ~(/\ app.sent
         /\ relay.phase = "responded"
         /\ relay.res[1].status \in 200..299)

\* C23: when the upload to the relay fails (non-OK status or network
\* error) handleUpload alerts the user, sends no further request, leaves
\* currentPDF null and the location alone, and sets isProcessing to false;
\* a request is only ever sent by the one fetch call after loadPDF.
C23_UploadFailureIsSurfacedNotRetried ==
    [][/\ UploadFails =>
            /\ app'.alerts = app.alerts + 1
            /\ app'.fetches = app.fetches
            /\ app'.currentPDF = NULL
            /\ app'.redirects = << >>
            /\ app'.isProcessing = FALSE
            /\ relay' = relay
       /\ app'.fetches # app.fetches =>
            /\ app.phase = "loadPDF"
            /\ app'.fetches = 1]_vars

\* the relay answered the frontend's request with an error status and
\* handleUpload returned
C23_Witness ==
    /\ app.phase = "done"
    /\ app.failure = "status"
    /\ relay.res[1].status \in {400, 500}
    /\ app.alerts = 1
    /\ app.fetches = 1
    /\ ~app.isProcessing


\* ------------------------------------------------------------ share links
\* `${base}#/view?${params.toString()}` with pdf and, if not empty, title
ViewLink(pdfUrl, title) ==
    <<"base", "#/view", "?">>
        \o SearchParamsToString(
              <<[name |-> <<"pdf">>, value |-> pdfUrl]>>
                  \o (IF title # << >>
                        THEN <<[name |-> <<"title">>, value |-> title]>>
                        ELSE << >>))

\* the effect of ShareModal: the link for the state pdfUrl and title
ShareModalLink(pdfUrl, title) ==
    IF pdfUrl = << >> THEN << >> ELSE ViewLink(pdfUrl, title)

\* handleOpenFromForm: the location it navigates to, none after its alert
FormLink(pdfUrlInput, titleInput) ==
    IF trim(pdfUrlInput) = << >> THEN << >>
    ELSE ViewLink(trim(pdfUrlInput), trim(titleInput))

\* the request of a PDF upload that the relay answers with a link
SharedUpload(originalname, title) ==
    [from |-> "client", origin |-> "none", multipart |-> TRUE, field |-> "file",
     mimetype |-> "application/pdf", originalname |-> originalname, title |-> title]

\* window.location.hash of a page opened at the link
LocationHash(link) == Fragment(Tail(link))

\* the mount effect of App: the shared view it opens for the hash
MountEffect(hash) ==
    IF hash # << >> /\ Head(hash) = "#/view"
      THEN LET parts == split(hash, "?")
               queryString == IF Len(parts) >= 2 THEN parts[2] ELSE << >>
               pdfParam == SearchParamsGet(queryString, <<"pdf">>)
               titleParam == SearchParamsGet(queryString, <<"title">>)
           IN  IF pdfParam.found /\ pdfParam.value # << >>
                 THEN [open |-> TRUE, sharedPdfUrl |-> pdfParam.value,
                       hasTitle |-> titleParam.found,
                       sharedTitle |-> titleParam.value]
                 ELSE NoSharedView
      ELSE NoSharedView

\* the share modal computes its link
ShareModalEffect ==
    /\ share.by = "modal" /\ ~share.made
    /\ share' = [share EXCEPT !.made = TRUE, !.u = share.pdfUrl, !.t = share.title,
                              !.link = ShareModalLink(share.pdfUrl, share.title)]
    /\ UNCHANGED <<viewerVars, source, app, relay, stale, observer>>

\* the landing-page form is submitted
handleOpenFromForm ==
    /\ share.by = "form" /\ ~share.made
    /\ share' = [share EXCEPT !.made = TRUE, !.u = share.pdfUrl, !.t = share.title,
                              !.link = FormLink(share.pdfUrl, share.title)]
    /\ UNCHANGED <<viewerVars, source, app, relay, stale, observer>>

\* the relay answers an upload with its success body
RelayLink ==
    /\ share.by = "relay" /\ ~share.made
    /\ LET body == SuccessBody(SharedUpload(share.pdfUrl, share.title))
       IN  share' = [share EXCEPT !.made = TRUE, !.u = body.pdfUrl, !.t = body.title,
                                  !.link = body.viewerUrl]
    /\ UNCHANGED <<viewerVars, source, app, relay, stale, observer>>

\* the link is opened in a browser: App mounts and reads the hash
OpenLink ==
    /\ share.made /\ share.link # << >> /\ ~share.opened
    /\ share' = [share EXCEPT !.opened = TRUE,
                              !.view = MountEffect(LocationHash(share.link))]
    /\ UNCHANGED <<viewerVars, source, app, relay, stale, observer>>

\* a generator with the PDF URL (for the relay: the name of the uploaded
\* file) and the title it is given
InitShare ==
    /\ \E by \in {"modal", "form", "relay"}, pdfUrl \in Str, title \in Str :
          /\ by = "relay" => pdfUrl # << >>
          /\ share = [ShareIdle EXCEPT !.by = by, !.pdfUrl = pdfUrl, !.title = title]
    /\ app = AppIdle
    /\ relay = RelayIdle
    /\ source = NULL
    /\ ViewerInit

NextShare == ShareModalEffect \/ handleOpenFromForm \/ RelayLink \/ OpenLink

SpecShare == InitShare /\ [][NextShare]_vars

\* ------------------------------------------------------------ C24
\* the view opened for the link shows source u and title t, no title when
\* t is empty
Opens(u, t) ==
    /\ share.view.open
    /\ share.view.sharedPdfUrl = u
    /\ share.view.hasTitle = (t # << >>)
    /\ share.view.sharedTitle = t

\* C24 as stated: for every non-empty PDF URL u and title t the link made
\* by the share modal, the form or the relay opens the viewer with source
\* exactly u and title exactly t, and with no title when t is empty.
C24_ShareLinkRoundTrip ==
    share.made /\ share.u # << >> =>
        /\ share.link # << >>
        /\ share.opened => Opens(share.u, share.t)

\* C24, amended: the share modal and the relay round-trip u and t exactly;
\* the form round-trips them with the white space around them removed, and
\* makes no link when nothing is left of u.
C24_ShareLinkRoundTripTrimmedForm ==
    share.made /\ share.u # << >> =>
        IF share.by = "form"
          THEN IF trim(share.u) = << >> THEN share.link = << >>
               ELSE /\ share.link # << >>
                    /\ share.opened => Opens(trim(share.u), trim(share.t))
          ELSE /\ share.link # << >>
               /\ share.opened => Opens(share.u, share.t)

\* a link whose URL and title both need escaping was opened, from the
\* relay and with a title
C24_Witness ==
    /\ share.opened
    /\ share.by = "relay"
    /\ share.view.open
    /\ \E i \in 1..Len(share.t) : share.t[i] = "&"
    /\ \E i \in 1..Len(share.t) : share.t[i] = " "


\* ------------------------------------------------------------ C25
\* a step in which the thumbnail bar's observer called loadPage
ThumbnailStep == ev'.op = "thumbnail"

\* C25: loadPage(n) called for a page that is in the cache starts no
\* render and no preload pass and leaves the cache unchanged: an accepted
\* request for a cached page changes neither the tasks nor the cache, and no
\* request and no thumbnail callback starts the render of a cached page.
C25_CacheConsultedBeforeRender ==
    [][/\ (ev'.accepted > 0 /\ ev'.goto[Len(ev'.goto)] \in DOMAIN pageImages)
            => /\ ev'.renders = << >>
               /\ ev'.center = 0
               /\ tasks' = tasks
               /\ loadSeq' = loadSeq
               /\ pageImages' = pageImages
       /\ (RequestStep \/ ThumbnailStep)
            => /\ Renders(ev') \cap DOMAIN pageImages = {}
               /\ \A t \in tasks' \ tasks : t.page \notin DOMAIN pageImages
               /\ pageImages' = pageImages]_vars

\* an accepted request for a cached page: its timer is set and nothing is
\* rendered
C25_Witness ==
    /\ ev.op = "request" /\ ev.accepted = 1
    /\ ev.goto[1] \in DOMAIN pageImages
    /\ ev.goto[1] # currentPage
    /\ ev.renders = << >>
    /\ timers # << >> /\ timers[Len(timers)] = ev.goto[1]


RendersInFlight(p) == {t \in tasks : p \in t.pending}

\* C27: at any time at most one render is in flight for a page: loadPage
\* and the preload passes never start a render of a page whose render is
\* already in flight.
C27_OneRenderPerPage ==
    \A p \in 1..MaxPages : Cardinality(RendersInFlight(p)) <= 1


\* ------------------------------------------------------------ source change
\* the id that tags the renders and images of the superseded load
StaleLoad == -1

\* the viewer's pdfUrl / pdfFile props change: the cleanup of the load
\* effect sets cancelled for the load in progress and the effect runs again,
\* up to the first await of the new loadPDFFile; the initial pass of the
\* earlier load, if in flight, stays in flight
SourceChange ==
    /\ source = "url" /\ stale.phase = "none"
    /\ loadPhase # "mount"
    /\ source' = "file"
    /\ stale' = [phase |-> IF loadPhase \in {"loadPDF", "renderFirst", "preloadWait"}
                             THEN loadPhase ELSE "returned",
                 tp |-> totalPages]
    /\ tasks' = {IF t.id = 0 THEN [t EXCEPT !.id = StaleLoad] ELSE t : t \in tasks}
    /\ loadPhase' = "loadPDF"
    /\ isLoading' = TRUE
    /\ loadingProgress' = 0
    /\ ev' = NoEv
    /\ UNCHANGED <<pdf, totalPages, navVars, dragVars, pageImages, loadSeq, lastWriter,
                   app, relay, share, observer>>

\* loadPDF of the superseded load settles: `if (cancelled) return` when it
\* resolves, the catch block when it rejects
StaleLoadPDFSettle(ok) ==
    /\ stale.phase = "loadPDF"
    /\ stale' = [stale EXCEPT !.phase = "returned"]
    /\ isLoading' = IF ok THEN isLoading ELSE FALSE
    /\ ev' = NoEv
    /\ UNCHANGED <<source, loadPhase, loadingProgress, pdf, totalPages, navVars, dragVars,
                   cacheVars, app, relay, share, observer>>

\* the first-page render of the superseded load settles: the code after
\* the await does not test cancelled
StaleFirstPageSettle(ok) ==
    /\ stale.phase = "renderFirst"
    /\ isLoading' = FALSE
    /\ IF ok
         THEN /\ pageImages' = CacheFirst(Image(1, StaleLoad))
              /\ lastWriter' = [x \in {1} |-> StaleLoad]
              /\ loadingProgress' = 100
              /\ stale' = [stale EXCEPT !.phase = "preloadWait"]
         ELSE /\ stale' = [stale EXCEPT !.phase = "returned"]
              /\ UNCHANGED <<pageImages, lastWriter, loadingProgress>>
    /\ ev' = NoEv
    /\ UNCHANGED <<source, loadPhase, pdf, totalPages, navVars, dragVars, tasks, loadSeq,
                   app, relay, share>>
    /\ observer' = (observer \/ totalPages > 0)

\* the setTimeout(..., 100) callback of the superseded load
StalePreloadTimer ==
    /\ stale.phase = "preloadWait"
    /\ stale' = [stale EXCEPT !.phase = "returned"]
    /\ LET t == PassTask(StaleLoad, 1, stale.tp)
       IN /\ tasks' = IF t.pending = {} THEN tasks ELSE tasks \cup {t}
          /\ ev' = [NoEv EXCEPT !.center = 1, !.pass = t.pending]
    /\ UNCHANGED <<source, loadVars, navVars, dragVars, pageImages, loadSeq, lastWriter,
                   app, relay, share, observer>>

\* the load effect with one change of the source
NextReload ==
    \/ LoadPDFFileStart
    \/ \E n \in 1..MaxPages : LoadPDFResolve(n)
    \/ LoadPDFReject
    \/ \E ok \in BOOLEAN : FirstPageSettle(ok)
    \/ InitialPreloadTimer
    \/ \E t \in tasks, done \in SUBSET (1..MaxPages) : PassResolve(t, done)
    \/ SourceChange
    \/ \E ok \in BOOLEAN : StaleLoadPDFSettle(ok)
    \/ \E ok \in BOOLEAN : StaleFirstPageSettle(ok)
    \/ StalePreloadTimer

SpecReload == Init /\ [][NextReload]_vars

\* ------------------------------------------------------------ C28
\* a step of a continuation of the superseded load
StaleStep ==
    \/ stale.phase # "none" /\ stale' # stale
    \/ ev'.op \in {"settled", "rejected"} /\ ev'.arg = StaleLoad

\* C28: once the source has changed, no continuation of the earlier load
\* (after loadPDF, after the first-page render, at the completion of its
\* initial preload) sets pdf, totalPages, the page cache or the loading flag.
C28_SupersededLoadNeverWrites ==
    [][StaleStep => UNCHANGED <<pdf, totalPages, pageImages, isLoading>>]_vars


\* ------------------------------------------------------------ C29
\* C29: requests accepted while timers are pending queue their timers in
\* request order and the timers fire in that order: each firing is that of
\* the oldest pending timer and sets currentPage to its target and
\* flipDirection to null, so the firing that leaves no timer pending sets
\* currentPage to the target of the most recently accepted request.
C29_TimersFireInRequestOrder ==
    [][/\ ev'.accepted > 0
            => timers' = timers \o [i \in 1..ev'.accepted |-> ev'.goto[Len(ev'.goto)]]
       /\ ev'.op = "flipped"
            => /\ timers # << >>
               /\ ev'.arg = Head(timers)
               /\ timers' = Tail(timers)
               /\ currentPage' = Head(timers)
               /\ flipDirection' = NULL
       /\ (ev'.op = "flipped" /\ timers' = << >>)
            => /\ currentPage' = timers[Len(timers)]
               /\ flipDirection' = NULL]_vars

\* the older of two pending timers with different targets has fired and the
\* younger is still pending
C29_Witness ==
    /\ ev.op = "flipped"
    /\ currentPage = ev.arg
    /\ Len(timers) = 1
    /\ timers[1] # currentPage
    /\ flipDirection = NULL

\* ------------------------------------------------------------ observer
\* renders of one page started by the observer are interchangeable: they
\* are numbered from ObserverBase in the order they are in flight, and the
\* one started last stands for whichever of them settles
ObserverBase == 10
PageRenders(p) == {t \in tasks : t.kind = "page" /\ t.page = p /\ t.id >= ObserverBase}
Newest(t) ==
    t.id < ObserverBase
        \/ \A u \in tasks : (u.kind = t.kind /\ u.page = t.page) => u.id <= t.id

\* entries.forEach of the observer callback: loadPage for each page of the
\* set, in document order, from page p on
RECURSIVE LoadEach(_, _, _)
LoadEach(s, pages, p) ==
    IF p > MaxPages THEN s
    ELSE LoadEach(IF p \in pages
                    THEN loadPage([s EXCEPT !.seq = ObserverBase + Cardinality(PageRenders(p)) - 1], p)
                    ELSE s,
                  pages, p + 1)

\* the first report of the observer that the thumbnail bar's effect created
\* after totalPages, pageImages or onLoadPage changed: the thumbnails in
\* view are reported together and loadPage is called for each uncached one
ObserverReport(visible) ==
    /\ observer /\ ThumbnailShown
    /\ visible \subseteq 1..totalPages
    /\ LET s == LoadEach(NavStart, visible \ DOMAIN pageImages, 1)
       IN /\ tasks' = s.tasks
          /\ ev' = [NoEv EXCEPT !.op = "thumbnail", !.renders = s.renders]
    /\ observer' = FALSE
    /\ UNCHANGED <<loadVars, navVars, dragVars, pageImages, loadSeq, lastWriter,
                   siteVars, stale>>

\* the largest document of the specification with the observer
ObservedPages == 2

\* the viewer with its keyboard and the thumbnail bar's observer
NextObserved ==
    \/ LoadPDFFileStart
    \/ \E n \in 1..ObservedPages : LoadPDFResolve(n)
    \/ LoadPDFReject
    \/ \E ok \in BOOLEAN : FirstPageSettle(ok)
    \/ InitialPreloadTimer
    \/ \E t \in tasks, ok \in BOOLEAN : Newest(t) /\ PageRenderSettle(t, ok)
    \/ \E t \in tasks, done \in SUBSET (1..MaxPages) : Newest(t) /\ PassResolve(t, done)
    \/ \E visible \in SUBSET (1..MaxPages) : ObserverReport(visible)
    \/ \E key \in Keys : handleKeyPress(key)
    \/ FlipTimerFire

\* loadPDF and every render settle, timers fire, the observer reports;
\* nothing obliges the user to press a key
ObservedFair ==
    /\ WF_vars(LoadPDFFileStart)
    /\ WF_vars(LoadPDFReject \/ \E n \in 1..ObservedPages : LoadPDFResolve(n))
    /\ WF_vars(\E ok \in BOOLEAN : FirstPageSettle(ok))
    /\ WF_vars(InitialPreloadTimer)
    /\ WF_vars(\E t \in tasks, ok \in BOOLEAN : Newest(t) /\ PageRenderSettle(t, ok))
    /\ WF_vars(\E t \in tasks, done \in SUBSET (1..MaxPages) : Newest(t) /\ PassResolve(t, done))
    /\ WF_vars(\E visible \in SUBSET (1..MaxPages) : ObserverReport(visible))
    /\ WF_vars(FlipTimerFire)

SpecObserved == Init /\ [][NextObserved]_vars /\ ObservedFair

\* ------------------------------------------------------------------- C30
\* a key press, the user event of the specification with the observer
KeyStep == \E key \in Keys : handleKeyPress(key)

\* nothing is left to happen: loadPDFFile has run to its end, no render and
\* no preload pass is in flight, no flip timer is pending, no flip is
\* shown and the observer has reported since the last cache change
Quiescent ==
    /\ loadPhase \in {"failed", "done"}
    /\ tasks = {} /\ timers = << >> /\ flipDirection = NULL
    /\ ~observer

\* C30: if the user presses only finitely many keys and every render
\* settles, the viewer reaches, and then stays in, a state with no render
\* in flight, no flip timer pending and flipDirection null, the observer
\* having nothing left to start: the observer, re-created on every cache
\* change, does not start renders forever, even for a page whose render
\* always fails
C30_ViewerBecomesQuiescent == (<>[][~KeyStep]_vars) => <>[]Quiescent

\* the viewer is at rest although page 2 is not cached: the last thing that
\* happened is that a render of page 2 started by loadPage failed, and the
\* observer has reported since
C30_Witness ==
    /\ Quiescent /\ ViewerShown
    /\ totalPages = 2 /\ 2 \notin DOMAIN pageImages
    /\ ev.op = "failed" /\ ev.arg = 2

====
